---------------------------- MODULE Spec2Model ----------------------------
(***************************************************************************)
(* A model of notion-db's typed property layer: property values and their  *)
(* factory (notiondb/PropertyValues.py), Row (notiondb/Row.py), the two    *)
(* Schema classes (notiondb/Schema.py, notion/Schema.py) and the schema    *)
(* object (notion/SchemaObjects.py).                                       *)
(*                                                                         *)
(* Python values are encoded uniformly as records                          *)
(*     [py |-> type name, s |-> text, n |-> number in tenths,              *)
(*      items |-> sequence of [k |-> key, v |-> value]]                    *)
(* so that a str, an int, a float, a list and a dict stay distinguishable  *)
(* (20, 20.0 and "20" are three different values).  A list uses k = "".    *)
(* An object is its class name together with its __dict__.                 *)
(***************************************************************************)
EXTENDS Integers, Sequences, FiniteSets, TLC

VARIABLES
    pv,         \* value layer: the PropertyValue object under test, or NoObj
    call,       \* value layer: the last call made (operation and arguments)
    ret,        \* value layer: how the last call ended ("ok" or the exception)
    heap,       \* Row: the PropertyValue objects, by reference
    row,        \* Row: Row.data, an ordered mapping column -> reference
    row2,       \* Row: the data of a second row, built over the same objects
    rcall,      \* Row: the last call made on the row
    rret,       \* Row: how the last call ended
    schema,     \* notion.Schema: properties (ordered, name -> Property) and columns
    scall,      \* notion.Schema: the last call made
    sret,       \* notion.Schema: how the last call ended
    dbschema,   \* notiondb.Schema: _columns (ordered, name -> SchemaProperty)
    dcall,      \* notiondb.Schema: the last call made
    dret,       \* notiondb.Schema: how the last call ended
    so,         \* SchemaObject: the object under test (its _obj), or NoObj
    ocall,      \* SchemaObject: the last call made
    oret        \* SchemaObject: how the last call ended

vars == <<pv, call, ret, heap, row, row2, rcall, rret, schema, scall, sret,
          dbschema, dcall, dret, so, ocall, oret>>
valueVars == <<pv, call, ret>>
rowVars == <<heap, row, row2, rcall, rret>>
schemaVars == <<schema, scall, sret>>
dbVars == <<dbschema, dcall, dret>>
objVars == <<so, ocall, oret>>

-----------------------------------------------------------------------------
(* Python values *)

PyStr(t) == [py |-> "str", s |-> t, n |-> 0, items |-> <<>>]
PyInt(tenths) == [py |-> "int", s |-> "", n |-> tenths, items |-> <<>>]
PyFloat(tenths) == [py |-> "float", s |-> "", n |-> tenths, items |-> <<>>]
PyBool(b) == [py |-> "bool", s |-> IF b THEN "True" ELSE "False", n |-> 0, items |-> <<>>]
PyDatetime(iso) == [py |-> "datetime", s |-> iso, n |-> 0, items |-> <<>>]
PyNone == [py |-> "NoneType", s |-> "", n |-> 0, items |-> <<>>]
PyList(elems) == [py |-> "list", s |-> "", n |-> 0, items |-> elems]
PyDict(pairs) == [py |-> "dict", s |-> "", n |-> 0, items |-> pairs]

KV(key, val) == [k |-> key, v |-> val]
Elem(val) == [k |-> "", v |-> val]

\* key in d (d is the item sequence of a dict)
Has(d, key) == \E i \in 1..Len(d) : d[i].k = key
\* d[key]
Get(d, key) == d[CHOOSE i \in 1..Len(d) : d[i].k = key].v
\* d[key] = val: an existing key keeps its position, a new one goes last
Put(d, key, val) ==
    IF Has(d, key)
    THEN [i \in 1..Len(d) |-> IF d[i].k = key THEN KV(key, val) ELSE d[i]]
    ELSE Append(d, KV(key, val))
\* del d[key]
Del(d, key) == SelectSeq(d, LAMBDA e : e.k # key)
Keys(d) == {d[i].k : i \in 1..Len(d)}
\* dict equality: the same keys with the same values, whatever the order
DictEq(d1, d2) ==
    /\ Keys(d1) = Keys(d2)
    /\ \A key \in Keys(d1) : Get(d1, key) = Get(d2, key)

\* bool(x)
Truthy(x) ==
    CASE x.py = "str" -> x.s # ""
      [] x.py \in {"int", "float"} -> x.n # 0
      [] x.py = "bool" -> x.s = "True"
      [] x.py = "NoneType" -> FALSE
      [] x.py \in {"list", "dict"} -> x.items # <<>>
      [] OTHER -> TRUE
\* a or b
PyOr(a, b) == IF Truthy(a) THEN a ELSE b

\* isinstance(x, int) is true of a bool as well: bool is a subclass of int
IsInstanceInt(x) == x.py \in {"int", "bool"}

\* The strings float() parses, with the value in tenths; any other raises ValueError
IsNumericStr(t) == t \in {"20", "20.5", "30"}
ParseFloat(t) == CASE t = "20" -> 200 [] t = "20.5" -> 205 [] t = "30" -> 300
\* str(x) of a number: an int prints without a fraction, a float with one
NumStr(x) ==
    CASE x.py = "int" /\ x.n = 200 -> "20"
      [] x.py = "int" /\ x.n = 300 -> "30"
      [] x.py = "float" /\ x.n = 200 -> "20.0"
      [] x.py = "float" /\ x.n = 205 -> "20.5"
      [] x.py = "float" /\ x.n = 300 -> "30.0"
      [] OTHER -> "?"
\* iterating a str yields its characters
Chars(t) ==
    CASE t = "Jo" -> <<"J", "o">>
      [] t = "20" -> <<"2", "0">>
      [] t = "30" -> <<"3", "0">>
      [] t = "20.5" -> <<"2", "0", ".", "5">>
      [] t = "A" -> <<"A">>
      [] t = "B" -> <<"B">>
      [] OTHER -> <<>>

RECURSIVE MapElems(_, _)
\* [F(e) for e in elems], as a list's item sequence
MapElems(F(_), elems) ==
    IF elems = <<>> THEN <<>>
    ELSE <<Elem(F(Head(elems)))>> \o MapElems(F, Tail(elems))

-----------------------------------------------------------------------------
(* Outcomes and objects *)

NoObj == [cls |-> "None", d |-> <<>>]
Obj(c, dict) == [cls |-> c, d |-> dict]
Ok(o) == [exc |-> "ok", obj |-> o]
Raise(e) == [exc |-> e, obj |-> NoObj]


-----------------------------------------------------------------------------
(* notiondb/PropertyValues.py: the value classes *)

\* PropertyValue.__init__(**kwargs): one attribute per keyword whose value is
\* not None
PropertyValue_init(c, kwargs) ==
    Obj(c, SelectSeq(kwargs, LAMBDA e : e.v.py # "NoneType"))

\* PropertyValue.notion / to_json / to_dict: the object's own __dict__
notion(o) == o.d

DefaultAnnotations ==
    PyDict(<<KV("bold", PyBool(FALSE)), KV("italic", PyBool(FALSE)),
             KV("strikethrough", PyBool(FALSE)), KV("underline", PyBool(FALSE)),
             KV("code", PyBool(FALSE)), KV("color", PyStr("default"))>>)

\* _RichTextObject(text, annotations, plain_text).rich_text_object()
RichTextObject(text, annotations, plain_text) ==
    PyDict(<<KV("type", PyStr("text")),
             KV("text", PyDict(<<KV("content", text), KV("link", PyNone)>>)),
             KV("annotations", annotations),
             KV("plain_text", PyOr(plain_text, text)),
             KV("href", PyNone)>>)

\* TitlePropertyValue(text, id=id)
TitlePropertyValue(text, id) ==
    Ok(PropertyValue_init("TitlePropertyValue",
        <<KV("type", PyStr("title")), KV("id", id),
          KV("title", PyList(<<Elem(RichTextObject(text, DefaultAnnotations, text))>>))>>))

\* RichTextPropertyValue(text, id=id)
RichTextPropertyValue(text, id) ==
    Ok(PropertyValue_init("RichTextPropertyValue",
        <<KV("type", PyStr("rich_text")), KV("id", id),
          KV("rich_text", PyList(<<Elem(RichTextObject(text, DefaultAnnotations, text))>>))>>))

\* SelectPropertyValue._select_option_object(name, color)
select_option_object(name, color) ==
    IF color.py # "NoneType"
    THEN PyDict(<<KV("name", name), KV("color", color)>>)
    ELSE PyDict(<<KV("name", name)>>)

\* SelectPropertyValue(name, id=id)
SelectPropertyValue(name, id) ==
    Ok(PropertyValue_init("SelectPropertyValue",
        <<KV("type", PyStr("select")), KV("id", id),
          KV("select", select_option_object(name, PyNone))>>))

\* what "for name in names" walks over, or the TypeError of a value that is
\* not iterable
Iterable(x) == x.py \in {"str", "list", "dict"}
RECURSIVE StrElems(_)
StrElems(cs) ==
    IF cs = <<>> THEN <<>> ELSE <<PyStr(Head(cs))>> \o StrElems(Tail(cs))
RECURSIVE ItemVals(_)
ItemVals(its) ==
    IF its = <<>> THEN <<>> ELSE <<Head(its).v>> \o ItemVals(Tail(its))
RECURSIVE ItemKeys(_)
ItemKeys(its) ==
    IF its = <<>> THEN <<>> ELSE <<PyStr(Head(its).k)>> \o ItemKeys(Tail(its))
Iter(x) ==
    CASE x.py = "str" -> StrElems(Chars(x.s))
      [] x.py = "list" -> ItemVals(x.items)
      [] x.py = "dict" -> ItemKeys(x.items)
      [] OTHER -> <<>>

NameOption(name) == PyDict(<<KV("name", name)>>)

\* MultiSelectPropertyValue(names, id=id)
MultiSelectPropertyValue(names, id) ==
    IF ~Iterable(names) THEN Raise("TypeError")
    ELSE Ok(PropertyValue_init("MultiSelectPropertyValue",
            <<KV("type", PyStr("multi_select")), KV("id", id),
              KV("multi_select", PyList(MapElems(NameOption, Iter(names))))>>))

\* NumberPropertyValue(number, id=id)
NumberPropertyValue(number, id) ==
    IF number.py = "str" /\ ~IsNumericStr(number.s) THEN Raise("ValueError")
    ELSE LET num == IF number.py = "str" THEN PyFloat(ParseFloat(number.s)) ELSE number
         IN  Ok(PropertyValue_init("NumberPropertyValue",
                <<KV("type", PyStr("number")), KV("id", id), KV("number", num)>>))

\* datetime.isoformat()
isoformat(x) == PyStr(x.s)

\* DatePropertyValue(start, id=id)
DatePropertyValue(start, id) ==
    LET st == IF start.py = "datetime" THEN isoformat(start) ELSE start
    IN  Ok(PropertyValue_init("DatePropertyValue",
            <<KV("type", PyStr("date")), KV("id", id),
              KV("date", PyDict(<<KV("start", st), KV("end", PyNone),
                                  KV("timezone", PyNone)>>))>>))

\* FormulaPropertyValue(formula, id=id)
FormulaPropertyValue(formula, id) ==
    Ok(PropertyValue_init("FormulaPropertyValue",
        <<KV("type", PyStr("formula")), KV("id", id), KV("formula", formula)>>))

\* RelationPropertyValue(value): the class leaves update and value abstract
\* and its __init__ takes keyword arguments only, so the call is a TypeError
\* before the body runs
RelationPropertyValue(value) == Raise("TypeError")

\* CheckboxPropertyValue(checked, id=id): id travels in **kwargs
CheckboxPropertyValue(checked, id) ==
    Ok(PropertyValue_init("CheckboxPropertyValue",
        <<KV("type", PyStr("checkbox")), KV("checkbox", checked), KV("id", id)>>))


-----------------------------------------------------------------------------
(* notiondb/PropertyValues.py: _PropertyValueFactory *)

\* _PropertyValueFactory.create(data): the first kind key found in data picks
\* the class, and data[key] is handed to it as its first positional argument
create(data) ==
    CASE Has(data, "title") -> TitlePropertyValue(Get(data, "title"), PyNone)
      [] Has(data, "rich_text") -> RichTextPropertyValue(Get(data, "rich_text"), PyNone)
      [] Has(data, "number") -> NumberPropertyValue(Get(data, "number"), PyNone)
      [] Has(data, "select") -> SelectPropertyValue(Get(data, "select"), PyNone)
      [] Has(data, "multi_select") -> MultiSelectPropertyValue(Get(data, "multi_select"), PyNone)
      [] Has(data, "date") -> DatePropertyValue(Get(data, "date"), PyNone)
      [] Has(data, "checkbox") -> CheckboxPropertyValue(Get(data, "checkbox"), PyNone)
      [] Has(data, "formula") -> FormulaPropertyValue(Get(data, "formula"), PyNone)
      [] Has(data, "relation") -> RelationPropertyValue(Get(data, "relation"))
      [] OTHER -> Raise("ValueError")

\* infer_from_value with the int test ahead of the bool test
infer_int_before_bool(value) ==
    CASE value.py = "str" -> RichTextPropertyValue(value, PyNone)
      [] value.py = "list" -> MultiSelectPropertyValue(value, PyNone)
      [] IsInstanceInt(value) \/ value.py = "float" -> NumberPropertyValue(value, PyNone)
      [] value.py = "bool" -> CheckboxPropertyValue(value, PyNone)
      [] value.py = "datetime" -> DatePropertyValue(value, PyNone)
      [] OTHER -> Raise("ValueError")

\* _PropertyValueFactory.infer_from_value(value): the isinstance chain, in the
\* code's order
infer_from_value(value) ==
    IF value.py = "str" THEN RichTextPropertyValue(value, PyNone)
    ELSE IF value.py = "list" THEN MultiSelectPropertyValue(value, PyNone)
    ELSE IF value.py = "bool" THEN CheckboxPropertyValue(value, PyNone)
    ELSE IF IsInstanceInt(value) \/ value.py = "float" THEN NumberPropertyValue(value, PyNone)
    ELSE IF value.py = "datetime" THEN DatePropertyValue(value, PyNone)
    ELSE Raise("ValueError")

\* _PropertyValueFactory.from_type(type, value)
from_type(type, value) ==
    CASE type = "title" -> TitlePropertyValue(value, PyNone)
      [] type = "rich_text" \/ type = "text" -> RichTextPropertyValue(value, PyNone)
      [] type = "number" -> NumberPropertyValue(value, PyNone)
      [] type = "select" -> SelectPropertyValue(value, PyNone)
      [] type = "multi_select" -> MultiSelectPropertyValue(value, PyNone)
      [] type = "date" -> DatePropertyValue(value, PyNone)
      [] type = "checkbox" -> CheckboxPropertyValue(value, PyNone)
      [] type = "formula" -> FormulaPropertyValue(value, PyNone)
      [] type = "relation" -> RelationPropertyValue(value)
      [] OTHER -> Raise("ValueError")

\* PropertyValue.from_json(json) on class c, that is c(raw=json).  Only the two
\* text classes default their first argument; the others demand it, and
\* RelationPropertyValue is abstract.
from_json(c, json) ==
    CASE c \in {"TitlePropertyValue", "RichTextPropertyValue"} ->
            IF Truthy(json) THEN Ok(PropertyValue_init(c, json.items))
            ELSE IF c = "TitlePropertyValue" THEN TitlePropertyValue(PyStr(""), PyNone)
            ELSE RichTextPropertyValue(PyNone, PyNone)
      [] OTHER -> Raise("TypeError")

-----------------------------------------------------------------------------
(* notiondb/PropertyValues.py: update and value *)

\* rich_text[0]["text"]["content"] = text
SetSpanContent(spans, text) ==
    LET span == spans.items[1].v
        inner == Get(span.items, "text")
        inner2 == PyDict(Put(inner.items, "content", text))
        span2 == PyDict(Put(span.items, "text", inner2))
    IN  PyList(<<Elem(span2)>> \o Tail(spans.items))

Mutated(o, dict) == Ok(Obj(o.cls, dict))

\* TitlePropertyValue.update(text)
Title_update(o, text) == Raise("NotImplementedError")

\* RichTextPropertyValue.update(text), no keyword arguments
RichText_update(o, text) ==
    IF ~Has(o.d, "rich_text") THEN Raise("AttributeError")
    ELSE Mutated(o, Put(o.d, "rich_text", SetSpanContent(Get(o.d, "rich_text"), text)))

\* SelectPropertyValue.update(name)
Select_update(o, name) ==
    IF name.py = "NoneType" THEN Mutated(o, o.d)
    ELSE IF ~Has(o.d, "select") THEN Raise("AttributeError")
    ELSE Mutated(o, Put(o.d, "select",
                        PyDict(Put(Get(o.d, "select").items, "name", name))))

\* MultiSelectPropertyValue.update(names)
MultiSelect_update(o, names) ==
    LET ns == IF names.py = "str" THEN PyList(<<Elem(names)>>) ELSE names
    IN  IF ~Iterable(ns) THEN Raise("TypeError")
        ELSE Mutated(o, Put(o.d, "multi_select", PyList(MapElems(NameOption, Iter(ns)))))

\* an update that stores a numeric string as it came
Number_update_no_float(o, number) == Mutated(o, Put(o.d, "number", number))

\* NumberPropertyValue.update(number)
Number_update(o, number) ==
    IF number.py = "str" /\ ~IsNumericStr(number.s) THEN Raise("ValueError")
    ELSE Mutated(o, Put(o.d, "number",
                        IF number.py = "str" THEN PyFloat(ParseFloat(number.s))
                        ELSE number))

\* DatePropertyValue.update(start)
Date_update(o, start) ==
    IF start.py = "NoneType" THEN Mutated(o, o.d)
    ELSE IF ~Has(o.d, "date") THEN Raise("AttributeError")
    ELSE LET st == IF start.py = "datetime" THEN isoformat(start) ELSE start
         IN  Mutated(o, Put(o.d, "date",
                            PyDict(Put(Get(o.d, "date").items, "start", st))))

\* FormulaPropertyValue.update(formula)
Formula_update(o, formula) == Mutated(o, Put(o.d, "formula", formula))

\* CheckboxPropertyValue.update(checked)
Checkbox_update(o, checked) == Mutated(o, Put(o.d, "checkbox", checked))

\* o.update(arg), dispatched on the class of o
update(o, arg) ==
    CASE o.cls = "TitlePropertyValue" -> Title_update(o, arg)
      [] o.cls = "RichTextPropertyValue" -> RichText_update(o, arg)
      [] o.cls = "SelectPropertyValue" -> Select_update(o, arg)
      [] o.cls = "MultiSelectPropertyValue" -> MultiSelect_update(o, arg)
      [] o.cls = "NumberPropertyValue" -> Number_update(o, arg)
      [] o.cls = "DatePropertyValue" -> Date_update(o, arg)
      [] o.cls = "FormulaPropertyValue" -> Formula_update(o, arg)
      [] o.cls = "CheckboxPropertyValue" -> Checkbox_update(o, arg)

KindKey(c) ==
    CASE c = "TitlePropertyValue" -> "title"
      [] c = "RichTextPropertyValue" -> "rich_text"
      [] c = "SelectPropertyValue" -> "select"
      [] c = "MultiSelectPropertyValue" -> "multi_select"
      [] c = "NumberPropertyValue" -> "number"
      [] c = "DatePropertyValue" -> "date"
      [] c = "FormulaPropertyValue" -> "formula"
      [] c = "CheckboxPropertyValue" -> "checkbox"
      [] OTHER -> "relation"

NameOf(option) == Get(option.items, "name")

\* o.value, for an object that has its kind attribute
value(o) ==
    LET x == Get(o.d, KindKey(o.cls))
    IN  CASE o.cls \in {"TitlePropertyValue", "RichTextPropertyValue"} ->
                Get(x.items[1].v.items, "plain_text")
          [] o.cls = "SelectPropertyValue" -> Get(x.items, "name")
          [] o.cls = "MultiSelectPropertyValue" ->
                PyList(MapElems(NameOf, ItemVals(x.items)))
          [] OTHER -> x

\* o.type, an attribute like any other: absent when the object was built
\* from a raw dict without it
HasType(o) == Has(o.d, "type")
TypeOf(o) == Get(o.d, "type").s


-----------------------------------------------------------------------------
(* The inputs the model draws from *)

\* the raw values a caller passes: strings (numeric spellings among them),
\* numbers, a bool, a datetime, lists, a dict and None
RawValues ==
    { PyStr("Jo"), PyStr("20"), PyStr("30"), PyStr("20.5"),
      PyInt(200), PyInt(300), PyFloat(205), PyBool(TRUE),
      PyDatetime("2020-01-01T00:00:00"),
      PyList(<<Elem(PyStr("A")), Elem(PyStr("B"))>>),
      PyList(<<Elem(PyInt(200))>>),
      PyDict(<<KV("a", PyStr("b"))>>),
      PyNone }

LiveKinds ==
    {"title", "rich_text", "number", "select", "multi_select", "date",
     "checkbox", "formula", "relation"}
ReservedKinds == {"people", "file", "url", "email", "phone_number", "rollup"}
\* every kind string tried: the live and the reserved ones, the alias "text"
\* and a string that names nothing
KindStrings == LiveKinds \cup ReservedKinds \cup {"text", "bogus"}

Classes ==
    {"TitlePropertyValue", "RichTextPropertyValue", "SelectPropertyValue",
     "MultiSelectPropertyValue", "NumberPropertyValue", "DatePropertyValue",
     "FormulaPropertyValue", "CheckboxPropertyValue", "RelationPropertyValue"}
TextClasses == {"TitlePropertyValue", "RichTextPropertyValue"}

\* the deepest nesting of a wire object that is still fed back to create
MaxDepth == 5

RECURSIVE Depth(_)
RECURSIVE ItemsDepth(_)
ItemsDepth(its) ==
    IF its = <<>> THEN 0
    ELSE LET h == Depth(Head(its).v)
             r == ItemsDepth(Tail(its))
         IN  IF h > r THEN h ELSE r
Depth(x) == IF x.py \in {"list", "dict"} THEN 1 + ItemsDepth(x.items) ELSE 0

-----------------------------------------------------------------------------
(* The value layer as a state machine: one object, built and then updated   *)
(* or sent through its wire form                                            *)

NoCall == [op |-> "none", kind |-> "", arg |-> PyNone]

ValueInit ==
    /\ pv = NoObj
    /\ call = NoCall
    /\ ret = "ok"

Returned(res, c) ==
    /\ pv' = res.obj
    /\ ret' = res.exc
    /\ call' = c
    /\ UNCHANGED <<rowVars, schemaVars, dbVars, objVars>>

\* pv = _PropertyValueFactory.from_type(kind, raw)
FromType ==
    /\ call = NoCall
    /\ \E kind \in KindStrings, raw \in RawValues :
        Returned(from_type(kind, raw), [op |-> "from_type", kind |-> kind, arg |-> raw])

\* pv = _PropertyValueFactory.infer_from_value(raw)
Infer ==
    /\ call = NoCall
    /\ \E raw \in RawValues :
        Returned(infer_from_value(raw), [op |-> "infer", kind |-> "", arg |-> raw])

\* the class called directly, with an id
ClassCall(c, x, id) ==
    CASE c = "TitlePropertyValue" -> TitlePropertyValue(x, id)
      [] c = "RichTextPropertyValue" -> RichTextPropertyValue(x, id)
      [] c = "SelectPropertyValue" -> SelectPropertyValue(x, id)
      [] c = "MultiSelectPropertyValue" -> MultiSelectPropertyValue(x, id)
      [] c = "NumberPropertyValue" -> NumberPropertyValue(x, id)
      [] c = "DatePropertyValue" -> DatePropertyValue(x, id)
      [] c = "FormulaPropertyValue" -> FormulaPropertyValue(x, id)
      [] c = "CheckboxPropertyValue" -> CheckboxPropertyValue(x, id)
      [] OTHER -> RelationPropertyValue(x)

\* pv = SomePropertyValue(raw, id="abc")
Construct ==
    /\ call = NoCall
    /\ \E c \in Classes, raw \in RawValues :
        Returned(ClassCall(c, raw, PyStr("abc")),
                 [op |-> "construct", kind |-> KindKey(c), arg |-> raw])

\* pv = _PropertyValueFactory.create(pv.notion)
Create ==
    /\ pv # NoObj
    /\ Depth(PyDict(notion(pv))) <= MaxDepth
    /\ Returned(create(notion(pv)),
                [op |-> "create", kind |-> "", arg |-> PyDict(notion(pv))])

\* pv = _PropertyValueFactory.create(fragment), the fragment being pv.notion
\* without its "type" entry or without the entry of its kind
CreateMalformed ==
    /\ pv # NoObj
    /\ HasType(pv)
    /\ Depth(PyDict(notion(pv))) <= MaxDepth
    /\ \E drop \in {"type", TypeOf(pv)} :
        Returned(create(Del(notion(pv), drop)),
                 [op |-> "create_malformed", kind |-> drop,
                  arg |-> PyDict(Del(notion(pv), drop))])

\* pv = type(pv).from_json(pv.notion)
FromJson ==
    /\ pv # NoObj
    /\ Returned(from_json(pv.cls, PyDict(notion(pv))),
                [op |-> "from_json", kind |-> "", arg |-> PyDict(notion(pv))])

\* pv.update(raw): the object changes in place, or not at all when it raises
Update ==
    /\ pv # NoObj
    /\ \E raw \in RawValues :
        LET res == update(pv, raw)
        IN  /\ pv' = IF res.exc = "ok" THEN res.obj ELSE pv
            /\ ret' = res.exc
            /\ call' = [op |-> "update", kind |-> "", arg |-> raw]
            /\ UNCHANGED <<rowVars, schemaVars, dbVars, objVars>>

ValueNext ==
    \/ FromType
    \/ Infer
    \/ Construct
    \/ Create
    \/ CreateMalformed
    \/ FromJson
    \/ Update


-----------------------------------------------------------------------------
(* notiondb/Row.py.  Row.data maps a column to a PropertyValue object; the   *)
(* objects live in heap and the mapping holds references, as in Python.      *)

\* how many objects the heap holds at once
MaxRefs == 5
Refs == 1..MaxRefs

\* a PropertyValue object passed as a value: a reference into heap
PyRef(r) == [py |-> "PropertyValue", s |-> "", n |-> r, items |-> <<>>]
\* isinstance(value, PropertyValue)
IsPropertyValue(x) == x.py = "PropertyValue"

\* the reference a new object gets
Alloc(h) == CHOOSE r \in Refs : h[r] = NoObj /\ \A q \in Refs : h[q] = NoObj => r <= q
\* objects no column refers to any more are gone
Collect(h, data) ==
    [r \in Refs |-> IF \E i \in 1..Len(data) : data[i].v = r THEN h[r] ELSE NoObj]

RowState(e, h, data) == [exc |-> e, heap |-> h, data |-> data]

\* Row._add without the sticky-title rule: the kind of the value already
\* stored under the label is not consulted
Row_add_not_sticky(h, data, label, val, type) ==
    IF IsPropertyValue(val) THEN RowState("ok", h, Put(data, label, val.n))
    ELSE LET res == IF type # "" THEN from_type(type, val) ELSE infer_from_value(val)
         IN  IF res.exc # "ok" THEN RowState(res.exc, h, data)
             ELSE LET r == Alloc(h)
                  IN  RowState("ok", [h EXCEPT ![r] = res.obj], Put(data, label, r))

\* Row._add(label, value, type) on the row (h, data); type "" is None
Row_add(h, data, label, val, type) ==
    IF Has(data, label) /\ ~HasType(h[Get(data, label)])
    THEN RowState("AttributeError", h, data)
    ELSE
    LET ty == IF Has(data, label) /\ TypeOf(h[Get(data, label)]) = "title"
              THEN (IF type # "" THEN type ELSE "title")
              ELSE type
    IN  IF IsPropertyValue(val) THEN RowState("ok", h, Put(data, label, val.n))
        ELSE LET res == IF ty # "" THEN from_type(ty, val) ELSE infer_from_value(val)
             IN  IF res.exc # "ok" THEN RowState(res.exc, h, data)
                 ELSE LET r == Alloc(h)
                      IN  RowState("ok", [h EXCEPT ![r] = res.obj], Put(data, label, r))

RECURSIVE ZipDict(_, _)
\* dict(zip(keys, vals)), keys a sequence of str values
ZipDict(keys, vals) ==
    IF keys = <<>> \/ vals = <<>> THEN <<>>
    ELSE LET n == IF Len(keys) < Len(vals) THEN Len(keys) ELSE Len(vals)
         IN  Put(ZipDict(SubSeq(keys, 1, n - 1), SubSeq(vals, 1, n - 1)),
                 keys[n].s, vals[n])

RECURSIVE Row_init_loop(_, _, _, _, _)
\* "for key in data": the columns are added in order and the first failure
\* ends the construction
Row_init_loop(st, todo, data, types, title_column) ==
    IF todo = <<>> \/ st.exc # "ok" THEN st
    ELSE LET key == Head(todo).k
         IN  IF ~Truthy(types)
             THEN Row_init_loop(
                    Row_add(st.heap, st.data, key, Get(data, key),
                            IF title_column = PyStr(key) THEN "title" ELSE ""),
                    Tail(todo), data, types, title_column)
             ELSE IF ~Has(types.items, key) THEN RowState("KeyError", st.heap, st.data)
             ELSE Row_init_loop(
                    Row_add(st.heap, st.data, key, Get(data, key), Get(types.items, key).s),
                    Tail(todo), data, types, title_column)

EmptyHeap == [r \in Refs |-> NoObj]

\* the part of Row.__init__ after the list arguments were zipped
Row_init_dict(data, types, title_column) ==
    IF Truthy(types) /\ types.py # "dict" THEN RowState("ValueError", EmptyHeap, <<>>)
    ELSE IF data.py # "dict" THEN RowState("ValueError", EmptyHeap, <<>>)
    ELSE Row_init_loop(RowState("ok", EmptyHeap, <<>>), data.items, data.items,
                       types, title_column)

\* Row(data, columns, types, title_column); an argument left out is None,
\* title_column is 0
Row_init(data0, cols, types, title_column) ==
    LET data == IF Truthy(data0) THEN data0 ELSE PyDict(<<>>)
    IN  IF data.py = "list"
        THEN IF cols.py # "list" \/ Len(cols.items) # Len(data.items)
             THEN RowState("ValueError", EmptyHeap, <<>>)
             ELSE LET names == ItemVals(cols.items)
                      byIndex == (\A i \in 1..Len(names) : names[i] # title_column)
                                 /\ IsInstanceInt(title_column)
                      index == (title_column.n \div 10) + 1
                      tc == IF byIndex THEN names[index] ELSE title_column
                  IN  IF byIndex /\ index > Len(names)
                      THEN RowState("IndexError", EmptyHeap, <<>>)
                      ELSE IF Truthy(types) /\ Len(Iter(types)) # Len(data.items)
                      THEN RowState("ValueError", EmptyHeap, <<>>)
                      ELSE Row_init_dict(
                             PyDict(ZipDict(names, ItemVals(data.items))),
                             IF Truthy(types)
                             THEN PyDict(ZipDict(names, Iter(types)))
                             ELSE types,
                             tc)
        ELSE Row_init_dict(data, types, title_column)


-----------------------------------------------------------------------------
(* notiondb/Schema.py, with the SchemaProperty objects it stores            *)
(* (notion/SchemaObjects.py).  A SchemaProperty is its _obj dict.           *)

\* SchemaObject.__init__(**kwargs)
SchemaProperty(kwargs) ==
    IF ~Has(kwargs, "type") THEN Raise("ValueError")
    ELSE IF ~Has(kwargs, "name") /\ ~Has(kwargs, "id") THEN Raise("ValueError")
    ELSE LET ty == Get(kwargs, "type").s
             o1 == IF Has(kwargs, "config")
                   THEN Del(Put(kwargs, ty, Get(kwargs, "config")), "config")
                   ELSE kwargs
             o2 == Put(o1, ty, IF Has(o1, ty) THEN Get(o1, ty) ELSE PyDict(<<>>))
         IN  Ok(Obj("SchemaProperty", o2))

\* SchemaObject.type
SchemaProperty_type(o) == IF Has(o.d, "type") THEN Get(o.d, "type").s ELSE ""
DbState(e, cols) == [exc |-> e, cols |-> cols]

\* _add_column putting the column first instead of where the mapping puts it
DbSchema_add_column_first(cols, name, type) ==
    IF type.py = "str"
    THEN LET res == SchemaProperty(<<KV("name", PyStr(name)), KV("type", type)>>)
         IN  IF res.exc # "ok" THEN DbState(res.exc, cols)
             ELSE DbState("ok", <<KV(name, res.obj)>> \o Del(cols, name))
    ELSE DbState("ok", <<KV(name, Obj("SchemaProperty", type.items))>> \o Del(cols, name))

\* Schema._add_column(name, type): a str becomes a SchemaProperty of that
\* type, anything else is stored as it is
DbSchema_add_column(cols, name, type) ==
    IF type.py = "str"
    THEN LET res == SchemaProperty(<<KV("name", PyStr(name)), KV("type", type)>>)
         IN  IF res.exc # "ok" THEN DbState(res.exc, cols)
             ELSE DbState("ok", Put(cols, name, res.obj))
    ELSE DbState("ok", Put(cols, name, Obj("SchemaProperty", type.items)))

RECURSIVE DbSchema_init_loop(_, _)
DbSchema_init_loop(st, todo) ==
    IF todo = <<>> \/ st.exc # "ok" THEN st
    ELSE DbSchema_init_loop(DbSchema_add_column(st.cols, Head(todo).k, Head(todo).v),
                            Tail(todo))

\* Schema(columns, types)
DbSchema_init(cols, types) ==
    IF cols.py = "list"
    THEN IF types.py = "NoneType" THEN DbState("ValueError", <<>>)
         ELSE IF Len(cols.items) # Len(types.items) THEN DbState("ValueError", <<>>)
         ELSE DbSchema_init_loop(DbState("ok", <<>>),
                [i \in 1..Len(cols.items) |-> KV(cols.items[i].v.s, types.items[i].v)])
    ELSE DbSchema_init_loop(DbState("ok", <<>>), cols.items)

\* Schema.notion: each column name with the wire form of its property
DbSchema_notion(cols) == [i \in 1..Len(cols) |-> KV(cols[i].k, PyDict(cols[i].v.d))]

RECURSIVE DbSchema_from_database_loop(_, _)
\* the loop of from_database: schema._add_column(name, SchemaProperty(**obj))
DbSchema_from_database_loop(st, props) ==
    IF props = <<>> \/ st.exc # "ok" THEN st
    ELSE LET res == SchemaProperty(Head(props).v.items)
         IN  IF res.exc # "ok" THEN DbState(res.exc, st.cols)
             ELSE DbSchema_from_database_loop(
                      DbSchema_add_column(st.cols, Head(props).k, PyDict(res.obj.d)),
                      Tail(props))

\* Schema.from_notion(data), an alias of Schema.from_database(response): the
\* columns are read from response["properties"]
DbSchema_from_database(response) ==
    IF ~Has(response, "properties") THEN DbState("KeyError", <<>>)
    ELSE DbSchema_from_database_loop(DbState("ok", <<>>), Get(response, "properties").items)

\* Schema.labels
DbSchema_labels(cols) == [i \in 1..Len(cols) |-> cols[i].k]
\* Schema.types
DbSchema_types(cols) == [i \in 1..Len(cols) |-> SchemaProperty_type(cols[i].v)]


-----------------------------------------------------------------------------
(* Row as a state machine: a row is constructed, then its columns are set,   *)
(* deleted and updated in place                                              *)

RECURSIVE PyStrs(_)
PyStrs(ss) == IF ss = <<>> THEN <<>> ELSE <<PyStr(Head(ss))>> \o PyStrs(Tail(ss))
RECURSIVE Elems(_)
Elems(vs) == IF vs = <<>> THEN <<>> ELSE <<Elem(Head(vs))>> \o Elems(Tail(vs))

\* Row.from_schema(values, schema), schema given by its _columns
Row_from_schema(values, cols) ==
    Row_init(values, PyNone,
             PyDict(ZipDict(PyStrs(DbSchema_labels(cols)), PyStrs(DbSchema_types(cols)))),
             PyInt(0))

Cols == {"Name", "Age"}
\* the raw values rows are built from and set to
RowRaws == {PyStr("Jo"), PyInt(200), PyBool(TRUE),
            PyList(<<Elem(PyStr("A"))>>), PyDict(<<KV("a", PyStr("b"))>>)}
\* the values objects held by a row are updated with
UpdateRaws == {PyStr("Jo"), PyInt(200)}
\* the kinds that schemas and type lists handed to Row carry
RowKinds == {"title", "text", "number", "checkbox", "people"}
\* title_column: the default 0, an index, a name, and a name that is no column
TitleColumns == {PyInt(0), PyInt(10), PyStr("Name"), PyStr("Age"), PyStr("Zip")}

\* the sequences without repetition over a set, up to two long
Seqs2(S) ==
    {<<>>} \cup {<<a>> : a \in S} \cup {<<a, b>> : a \in S, b \in S}
Distinct2(S) == {q \in Seqs2(S) : Len(q) < 2 \/ q[1] # q[2]}
\* the dicts with keys from Ks (in either order) and values from Vs
Dicts(Ks, Vs) ==
    {PyDict([i \in 1..Len(ks) |-> KV(ks[i], vs[i])]) :
        <<ks, vs>> \in {p \in Distinct2(Ks) \X Seqs2(Vs) : Len(p[1]) = Len(p[2])}}
Lists(Vs) == {PyList(Elems(q)) : q \in Seqs2(Vs)}

\* the schemas handed to from_schema: built by Schema({name: kind, ...})
SchemaArgs ==
    {DbSchema_init(d, PyNone).cols :
        d \in Dicts(Cols, {PyStr(kd) : kd \in RowKinds})}

NoRow == [exists |-> FALSE, data |-> <<>>]
NoRowCall == [op |-> "none", col |-> "", arg |-> PyNone, types |-> PyNone, tc |-> PyNone, cols |-> PyNone]

RowInit ==
    /\ heap = EmptyHeap
    /\ row = NoRow
    /\ row2 = NoRow
    /\ rcall = NoRowCall
    /\ rret = "ok"

\* a constructor returned st: the row exists when it did not raise
Constructed(st, c) ==
    /\ rret' = st.exc
    /\ row' = IF st.exc = "ok" THEN [exists |-> TRUE, data |-> st.data] ELSE NoRow
    /\ heap' = IF st.exc = "ok" THEN st.heap ELSE EmptyHeap
    /\ row2' = row2
    /\ rcall' = c
    /\ UNCHANGED <<valueVars, schemaVars, dbVars, objVars>>

\* a method of the row returned st; the objects the second row holds stay
RowReturned(st, c) ==
    /\ rret' = st.exc
    /\ row' = [row EXCEPT !.data = st.data]
    /\ heap' = Collect(st.heap, st.data \o row2.data)
    /\ row2' = row2
    /\ rcall' = c
    /\ UNCHANGED <<valueVars, schemaVars, dbVars, objVars>>

\* row = Row(data, title_column=tc), data a mapping of raw values
RowFromDict ==
    /\ ~row.exists /\ rcall = NoRowCall
    /\ \E data \in Dicts(Cols, RowRaws), tc \in TitleColumns :
        Constructed(Row_init(data, PyNone, PyNone, tc),
                    [op |-> "Row", col |-> "", arg |-> data, types |-> PyNone, tc |-> tc, cols |-> PyNone])

\* row = Row(data, columns, types, title_column=tc), data a list
RowFromList ==
    /\ ~row.exists /\ rcall = NoRowCall
    /\ \E data \in Lists({PyStr("Jo"), PyInt(200), PyNone}),
          cs \in {PyNone} \cup {PyList(Elems(PyStrs(q))) : q \in Distinct2(Cols)},
          ts \in {PyNone} \cup Lists({PyStr("title"), PyStr("number")}),
          tc \in TitleColumns :
        Constructed(Row_init(data, cs, ts, tc),
                    [op |-> "RowList", col |-> "", arg |-> data, types |-> ts, tc |-> tc, cols |-> cs])

\* row = Row.from_schema(values, schema)
RowFromSchema ==
    /\ ~row.exists /\ rcall = NoRowCall
    /\ \E values \in Dicts(Cols, RowRaws), cols \in SchemaArgs :
        Constructed(Row_from_schema(values, cols),
                    [op |-> "from_schema", col |-> "", arg |-> values,
                     types |-> PyDict(ZipDict(PyStrs(DbSchema_labels(cols)),
                                              PyStrs(DbSchema_types(cols)))),
                     tc |-> PyInt(0), cols |-> PyNone])

\* Row.__setitem__(key, value)
Row_setitem(h, data, key, val) ==
    IF IsPropertyValue(val) THEN RowState("ok", h, Put(data, key, val.n))
    ELSE Row_add(h, data, key, val, "")

\* row[c] = raw
SetRaw ==
    /\ row.exists
    /\ \E c \in Cols, raw \in RowRaws :
        RowReturned(Row_setitem(heap, row.data, c, raw),
                    [op |-> "set_raw", col |-> c, arg |-> raw, types |-> PyNone, tc |-> PyNone, cols |-> PyNone])

\* row[c] = SomePropertyValue(raw): the caller builds the object
SetNew ==
    /\ row.exists
    /\ \E c \in Cols, kind \in {"title", "rich_text", "number"}, raw \in UpdateRaws :
        LET res == from_type(kind, raw)
            r == Alloc(heap)
        IN  /\ res.exc = "ok"
            /\ RowReturned(Row_setitem([heap EXCEPT ![r] = res.obj], row.data, c, PyRef(r)),
                           [op |-> "set_pv", col |-> c, arg |-> raw, types |-> PyNone, tc |-> PyNone, cols |-> PyNone])

\* row[c] = row[c2]: the object row[c2] holds is stored under c as well
SetAlias ==
    /\ row.exists
    /\ \E c \in Cols, c2 \in Cols :
        /\ Has(row.data, c2)
        /\ RowReturned(Row_setitem(heap, row.data, c, PyRef(Get(row.data, c2))),
                       [op |-> "set_pv", col |-> c, arg |-> PyNone, types |-> PyNone, tc |-> PyNone, cols |-> PyNone])

\* Row.notion: the wire form of every column, under "properties"
Row_notion(h, data) ==
    <<KV("properties", PyDict([i \in 1..Len(data) |-> KV(data[i].k, PyDict(notion(h[data[i].v])))]))>>

\* Row.__getitem__(key)
Row_getitem(h, data, key) ==
    IF Has(data, key) THEN Ok(h[Get(data, key)]) ELSE Raise("KeyError")

\* Row.delete without the test for the column: an absent column is passed over
Row_delete_silent(h, data, key) == RowState("ok", h, Del(data, key))

\* Row.delete(key)
Row_delete(h, data, key) ==
    IF Has(data, key) THEN RowState("ok", h, Del(data, key))
    ELSE RowState("ValueError", h, data)

\* Row.__delitem__(key)
Row_delitem(h, data, key) ==
    IF Has(data, key) THEN RowState("ok", h, Del(data, key))
    ELSE RowState("KeyError", h, data)

\* row.delete(c)
Delete ==
    /\ row.exists
    /\ \E c \in Cols :
        RowReturned(Row_delete(heap, row.data, c),
                    [op |-> "delete", col |-> c, arg |-> PyNone, types |-> PyNone, tc |-> PyNone, cols |-> PyNone])

\* del row[c]
DelItem ==
    /\ row.exists
    /\ \E c \in Cols :
        RowReturned(Row_delitem(heap, row.data, c),
                    [op |-> "delitem", col |-> c, arg |-> PyNone, types |-> PyNone, tc |-> PyNone, cols |-> PyNone])

\* row[c].update(raw): the object changes in place, for every column holding it
ValueUpdate ==
    /\ row.exists
    /\ \E c \in Cols, raw \in UpdateRaws :
        /\ Has(row.data, c)
        /\ LET r == Get(row.data, c)
               res == update(heap[r], raw)
           IN  RowReturned(
                 RowState(res.exc,
                          IF res.exc = "ok" THEN [heap EXCEPT ![r] = res.obj] ELSE heap,
                          row.data),
                 [op |-> "update", col |-> c, arg |-> raw, types |-> PyNone, tc |-> PyNone, cols |-> PyNone])

\* the kinds of the PropertyValue objects a mapping of objects is built of
ObjectColumnKinds == {"title", "number", "select"}

\* row = Row({"Name": from_type(k1, "Jo"), "Age": from_type(k2, 200 or "Jo")}):
\* a mapping of PropertyValue objects, stored as they are
RowFromObjects ==
    /\ ~row.exists /\ rcall = NoRowCall
    /\ \E k1 \in ObjectColumnKinds, k2 \in ObjectColumnKinds, raw \in UpdateRaws :
        LET o1 == from_type(k1, PyStr("Jo"))
            o2 == from_type(k2, raw)
            h == [EmptyHeap EXCEPT ![1] = o1.obj, ![2] = o2.obj]
            d == PyDict(<<KV("Name", PyRef(1)), KV("Age", PyRef(2))>>)
        IN  /\ o1.exc = "ok" /\ o2.exc = "ok"
            /\ Constructed(Row_init_loop(RowState("ok", h, <<>>), d.items, d.items,
                                         PyNone, PyInt(0)),
                           [op |-> "RowObjects", col |-> "", arg |-> d, types |-> PyNone,
                            tc |-> PyInt(0), cols |-> PyNone])

\* a second row over the objects of the first, built next: row2 = Row(d), d the mapping
\* of PropertyValue objects the first row holds (c = ""), or
\* row2 = Row(); row2[c] = row[c]
SecondRow ==
    /\ row.exists /\ ~row2.exists /\ rcall.op = "RowObjects"
    /\ \E c \in Keys(row.data) \cup {""} :
        LET d == IF c = "" THEN [i \in 1..Len(row.data) |->
                                    KV(row.data[i].k, PyRef(row.data[i].v))]
                 ELSE <<KV(c, PyRef(Get(row.data, c)))>>
            st == Row_init_loop(RowState("ok", heap, <<>>), d, d, PyNone, PyInt(0))
        IN  /\ st.exc = "ok"
            /\ row2' = [exists |-> TRUE, data |-> st.data]
            /\ heap' = st.heap
            /\ rret' = "ok"
            /\ rcall' = [op |-> "Row2", col |-> c, arg |-> PyDict(d), types |-> PyNone,
                         tc |-> PyInt(0), cols |-> PyNone]
            /\ UNCHANGED <<row, valueVars, schemaVars, dbVars, objVars>>

\* row[c] = raw on the first of two rows
Replace ==
    /\ row2.exists
    /\ \E c \in Cols, raw \in UpdateRaws :
        RowReturned(Row_setitem(heap, row.data, c, raw),
                    [op |-> "set_raw", col |-> c, arg |-> raw, types |-> PyNone, tc |-> PyNone, cols |-> PyNone])

\* two rows over the same objects, and the operations on the first
ShareNext ==
    \/ RowFromObjects
    \/ SecondRow
    \/ Replace
    \/ Delete
    \/ ValueUpdate

RowNext ==
    \/ RowFromDict
    \/ RowFromList
    \/ RowFromSchema
    \/ SetRaw
    \/ SetNew
    \/ SetAlias
    \/ Delete
    \/ DelItem
    \/ ValueUpdate


-----------------------------------------------------------------------------
(* notiondb.Schema as a state machine *)

DbNames == {"Name", "Age", "Cool"}
\* the kind strings schemas are given: live ones, the alias, a reserved one
\* and one that names nothing
DbKinds == {"title", "number", "text", "people", "bogus"}

NoDb == [exists |-> FALSE, cols |-> <<>>]
NoDbCall == [op |-> "none", name |-> "", arg |-> PyNone, types |-> PyNone]

DbInit ==
    /\ dbschema = NoDb
    /\ dcall = NoDbCall
    /\ dret = "ok"

DbReturned(st, c) ==
    /\ dret' = st.exc
    /\ dbschema' = [dbschema EXCEPT !.cols = st.cols]
    /\ dcall' = c
    /\ UNCHANGED <<valueVars, rowVars, schemaVars, objVars>>

\* schema = Schema({name: kind, ...})
DbNew ==
    /\ ~dbschema.exists /\ dcall = NoDbCall
    /\ \E d \in Dicts(DbNames, {PyStr(kd) : kd \in DbKinds}) :
        LET st == DbSchema_init(d, PyNone)
        IN  /\ dret' = st.exc
            /\ dbschema' = IF st.exc = "ok" THEN [exists |-> TRUE, cols |-> st.cols]
                           ELSE NoDb
            /\ dcall' = [op |-> "Schema", name |-> "", arg |-> d, types |-> PyNone]
            /\ UNCHANGED <<valueVars, rowVars, schemaVars, objVars>>

\* schema = Schema([name, ...], [kind, ...]), or Schema([name, ...]) with no
\* types
DbNewList ==
    /\ ~dbschema.exists /\ dcall = NoDbCall
    /\ \E columns \in Lists({PyStr(n) : n \in DbNames}),
          types \in Lists({PyStr(kd) : kd \in DbKinds}) \cup {PyNone} :
        LET st == DbSchema_init(columns, types)
        IN  /\ dret' = st.exc
            /\ dbschema' = IF st.exc = "ok" THEN [exists |-> TRUE, cols |-> st.cols]
                           ELSE NoDb
            /\ dcall' = [op |-> "Schema", name |-> "", arg |-> columns, types |-> types]
            /\ UNCHANGED <<valueVars, rowVars, schemaVars, objVars>>

\* Schema.__setitem__(key, value)
DbSchema_setitem(cols, key, val) == DbSchema_add_column(cols, key, val)

\* Schema.__delitem__(key)
DbSchema_delitem(cols, key) ==
    IF Has(cols, key) THEN DbState("ok", Del(cols, key))
    ELSE DbState("KeyError", cols)

\* schema[name] = kind
DbSetItem ==
    /\ dbschema.exists
    /\ \E name \in DbNames, kd \in DbKinds :
        DbReturned(DbSchema_setitem(dbschema.cols, name, PyStr(kd)),
                   [op |-> "setitem", name |-> name, arg |-> PyStr(kd), types |-> PyNone])

\* schema[name] = SchemaProperty(name=other, type=kind): a property object,
\* built by the caller under a name of its own
DbSetItemObject ==
    /\ dbschema.exists
    /\ \E name \in DbNames, other \in DbNames, kd \in {"title", "number"} :
        LET o == SchemaProperty(<<KV("name", PyStr(other)), KV("type", PyStr(kd))>>).obj
        IN  DbReturned(DbSchema_setitem(dbschema.cols, name, PyDict(o.d)),
                       [op |-> "setitem", name |-> name, arg |-> PyDict(o.d), types |-> PyNone])

\* schema = Schema.from_notion(schema.notion), or the same with the wire form
\* put under "properties" first; a call that raises leaves schema bound to
\* the old object
DbFromNotion ==
    /\ dbschema.exists
    /\ \E wrapped \in BOOLEAN :
        LET data == IF wrapped
                    THEN PyDict(<<KV("properties", PyDict(DbSchema_notion(dbschema.cols)))>>)
                    ELSE PyDict(DbSchema_notion(dbschema.cols))
            st == DbSchema_from_database(data.items)
        IN  DbReturned(IF st.exc = "ok" THEN st ELSE DbState(st.exc, dbschema.cols),
                       [op |-> "from_notion", name |-> "", arg |-> data, types |-> PyNone])

\* del schema[name]
DbDelItem ==
    /\ dbschema.exists
    /\ \E name \in DbNames :
        DbReturned(DbSchema_delitem(dbschema.cols, name),
                   [op |-> "delitem", name |-> name, arg |-> PyNone, types |-> PyNone])

DbNext ==
    \/ DbNew
    \/ DbNewList
    \/ DbSetItem
    \/ DbSetItemObject
    \/ DbFromNotion
    \/ DbDelItem

\* the columns of kind title
DbTitles(cols) == {i \in 1..Len(cols) : SchemaProperty_type(cols[i].v) = "title"}


-----------------------------------------------------------------------------
(* notion/Types.py: the schema-level Property classes, and notion/Schema.py  *)

\* Property.__init__(type, name, config): the attributes type, name and prop
Property(c, type, name, config) ==
    Obj(c, <<KV("type", PyStr(type)), KV("name", name),
             KV("prop", PyDict(<<KV("type", PyStr(type)), KV("name", name),
                                 KV(type, config)>>))>>)

EmptyConfig == PyDict(<<>>)
NoOptions == PyDict(<<KV("options", PyList(<<>>))>>)

\* Schema._TYPE_MAP[datatype](name): the class the kind string names, called
\* with the column name as its only argument
TYPE_MAP(datatype, name) ==
    CASE datatype = "title" -> Ok(Property("Title", "title", name, EmptyConfig))
      [] datatype \in {"text", "rich_text"} ->
            Ok(Property("RichText", "rich_text", name, EmptyConfig))
      [] datatype = "number" ->
            Ok(Property("Number", "number", name, PyDict(<<KV("format", PyStr("number"))>>)))
      [] datatype = "select" -> Ok(Property("Select", "select", name, NoOptions))
      [] datatype = "multi_select" ->
            Ok(Property("MultiSelect", "multi_select", name, NoOptions))
      [] datatype = "date" -> Ok(Property("Date", "date", name, EmptyConfig))
      [] datatype = "checkbox" -> Ok(Property("Checkbox", "checkbox", name, EmptyConfig))
         \* Formula passes {"expression": expression} where the name belongs
      [] datatype = "formula" ->
            Ok(Property("Formula", "formula",
                        PyDict(<<KV("expression", PyNone)>>), EmptyConfig))
         \* **kwargs-only constructors, called with a positional argument
      [] datatype \in {"people", "file", "url", "email", "phone_number"} -> Raise("TypeError")
      [] datatype = "relation" -> Raise("NotImplementedError")
         \* Rollup needs three arguments
      [] datatype = "rollup" -> Raise("TypeError")
      [] OTHER -> Raise("KeyError")

\* Schema._TYPE_MAP[datatype](name, **kwargs), the keyword arguments being
\* either none (format "") or format=...: only Number takes a format, every
\* other class refuses the keyword
TYPE_MAP_kwargs(datatype, name, format) ==
    IF format = "" THEN TYPE_MAP(datatype, name)
    ELSE IF datatype = "number"
    THEN Ok(Property("Number", "number", name, PyDict(<<KV("format", PyStr(format))>>)))
    ELSE IF TYPE_MAP(datatype, name).exc = "KeyError" THEN Raise("KeyError")
    ELSE Raise("TypeError")

\* Property.rename(new_name): renames in place and returns nothing
Property_rename(o, new_name) ==
    [self |-> Obj(o.cls, Put(Put(o.d, "name", PyStr(new_name)), "prop",
                             PyDict(Put(Get(o.d, "prop").items, "name", PyStr(new_name))))),
     result |-> NoObj]

Property_type(o) == Get(o.d, "type").s
Property_name(o) == Get(o.d, "name")
\* the kind's own entry of prop
Property_config(o) == Get(Get(o.d, "prop").items, Property_type(o))

SchemaState(e, props, cs) == [exc |-> e, properties |-> props, columns |-> cs]

\* Schema._update(): self.columns is assigned, then self.labels, which is a
\* property without a setter, so the assignment raises and nothing after it
\* runs
Schema_update(props) ==
    SchemaState("AttributeError", props, PyList(Elems(PyStrs([i \in 1..Len(props) |-> props[i].k]))))

\* Schema.add(name, datatype)
Schema_add(st, name, datatype) ==
    IF Has(st.properties, name) THEN SchemaState("ValueError", st.properties, st.columns)
    ELSE IF datatype # ""
    THEN LET res == TYPE_MAP(datatype, PyStr(name))
         IN  IF res.exc # "ok" THEN SchemaState(res.exc, st.properties, st.columns)
             ELSE Schema_update(Put(st.properties, name, res.obj))
    ELSE SchemaState("ValueError", st.properties, st.columns)

\* Schema.add(object=o): the name argument is left at None, so the duplicate
\* test passes and the object is stored under its own name, which has to be
\* hashable
Schema_add_object(st, o) ==
    IF Property_name(o).py # "str" THEN SchemaState("TypeError", st.properties, st.columns)
    ELSE Schema_update(Put(st.properties, Property_name(o).s, o))

\* Schema.remove(column_name)
Schema_remove(st, column_name) ==
    IF ~Has(st.properties, column_name)
    THEN SchemaState("ValueError", st.properties, st.columns)
    ELSE Schema_update(Del(st.properties, column_name))

\* Schema.update_type(name, datatype, **kwargs), datatype a kind string
Schema_update_type(st, name, datatype, format) ==
    IF ~Has(st.properties, name) THEN SchemaState("ValueError", st.properties, st.columns)
    ELSE LET res == TYPE_MAP_kwargs(datatype, PyStr(name), format)
         IN  IF res.exc # "ok" THEN SchemaState(res.exc, st.properties, st.columns)
             ELSE Schema_update(Put(st.properties, name, res.obj))

\* Schema.update_type(name, datatype), datatype a Property object
Schema_update_type_object(st, name, o) ==
    IF ~Has(st.properties, name) THEN SchemaState("ValueError", st.properties, st.columns)
    ELSE Schema_update(Put(st.properties, name, o))

\* rename_column popping the old column before it tests the new name
Schema_rename_column_pop_first(st, old_name, new_name) ==
    IF ~Has(st.properties, old_name)
    THEN SchemaState("ValueError", st.properties, st.columns)
    ELSE IF Has(Del(st.properties, old_name), new_name)
    THEN SchemaState("ValueError", Del(st.properties, old_name), st.columns)
    ELSE IF Get(st.properties, old_name) = NoObj
    THEN SchemaState("AttributeError", Del(st.properties, old_name), st.columns)
    ELSE Schema_update(
            Put(Del(st.properties, old_name), new_name,
                Property_rename(Get(st.properties, old_name), new_name).result))

\* Schema.rename_column(old_name, new_name): the popped property is renamed,
\* and what rename returns is stored under the new name
Schema_rename_column(st, old_name, new_name) ==
    IF ~Has(st.properties, old_name)
    THEN SchemaState("ValueError", st.properties, st.columns)
    ELSE IF Has(st.properties, new_name)
    THEN SchemaState("ValueError", st.properties, st.columns)
    ELSE IF Get(st.properties, old_name) = NoObj
    THEN SchemaState("AttributeError", Del(st.properties, old_name), st.columns)
    ELSE Schema_update(
            Put(Del(st.properties, old_name), new_name,
                Property_rename(Get(st.properties, old_name), new_name).result))

\* Schema.__setitem__(key, value)
Schema_setitem(st, key, val) == Schema_update(Put(st.properties, key, val))


RECURSIVE Schema_init_labels(_, _, _, _, _)
\* the two label loops of Schema.__init__: each label is added with its type,
\* or with "title" at title_column and the default "text" elsewhere; the
\* first add that raises ends the construction
Schema_init_labels(st, labels, types, title_column, i) ==
    IF i > Len(labels) THEN st
    ELSE LET datatype == IF types # <<>> THEN types[i]
                         ELSE IF i - 1 = title_column THEN "title" ELSE "text"
             nxt == Schema_add(st, labels[i], datatype)
         IN  IF nxt.exc # "ok" THEN nxt
             ELSE Schema_init_labels(nxt, labels, types, title_column, i + 1)

NewSchemaState == SchemaState("ok", <<>>, PyNone)

\* Schema.__init__(labels, types, objects, title_column); labels, types and
\* objects are sequences, <<>> for an empty or absent types and objects, and
\* hasLabels tells an empty list of labels from None
Schema_init(hasLabels, labels, types, objects, title_column) ==
    IF objects # <<>>
    THEN IF \E i \in 1..Len(objects) : Property_name(objects[i]).py # "str"
         THEN SchemaState("TypeError", <<>>, PyNone)
         ELSE LET RECURSIVE Build(_, _)
                  Build(props, i) ==
                      IF i > Len(objects) THEN props
                      ELSE Build(Put(props, Property_name(objects[i]).s, objects[i]), i + 1)
              IN  SchemaState("ok", Build(<<>>, 1), PyNone)
    ELSE IF ~hasLabels THEN SchemaState("TypeError", <<>>, PyNone)
    ELSE IF types # <<>> /\ Len(labels) # Len(types)
    THEN SchemaState("ValueError", <<>>, PyNone)
    ELSE Schema_init_labels(NewSchemaState, labels, types, title_column, 1)

-----------------------------------------------------------------------------
(* The notion.Schema machine: one schema, built and then changed             *)

SNames == {"Name", "Age", "Cool"}
SKinds == {"title", "text", "number", "formula", "people", "relation", "bogus"}
\* the kinds whose classes a caller can construct with a name alone
ObjKinds == {"title", "number"}

NoSchema == [exists |-> FALSE, properties |-> <<>>, columns |-> PyNone]
NoSchemaCall == [op |-> "none", name |-> "", arg |-> "", fmt |-> ""]
\* the format keyword of update_type, tried with the kind that takes it:
\* absent, or a format other than the default
Formats == {"", "dollar"}

SchemaInit == schema = NoSchema /\ scall = NoSchemaCall /\ sret = "ok"

\* a constructor that raises leaves no object behind
SchemaConstructed(st, c) ==
    /\ schema' = IF st.exc = "ok"
                 THEN [exists |-> TRUE, properties |-> st.properties, columns |-> st.columns]
                 ELSE NoSchema
    /\ scall' = c
    /\ sret' = st.exc
    /\ UNCHANGED <<valueVars, rowVars, dbVars, objVars>>

\* a method that raises leaves the object as it was when the exception left
SchemaReturned(st, c) ==
    /\ schema' = [exists |-> TRUE, properties |-> st.properties, columns |-> st.columns]
    /\ scall' = c
    /\ sret' = st.exc
    /\ UNCHANGED <<valueVars, rowVars, dbVars, objVars>>

SchemaSelf == SchemaState("ok", schema.properties, schema.columns)

SchemaNewObjects ==
    /\ ~schema.exists /\ scall = NoSchemaCall
    /\ \E names \in Seqs2(SNames), kds \in Seqs2(ObjKinds) :
        /\ Len(names) = Len(kds)
        /\ SchemaConstructed(
              Schema_init(FALSE, <<>>, <<>>,
                          [i \in 1..Len(names) |-> TYPE_MAP(kds[i], PyStr(names[i])).obj], 0),
              [op |-> "Schema", name |-> "", arg |-> "objects", fmt |-> ""])

SchemaNewLabels ==
    /\ ~schema.exists /\ scall = NoSchemaCall
    /\ \E labels \in Seqs2(SNames), types \in Seqs2(SKinds), title_column \in 0..1 :
        SchemaConstructed(Schema_init(TRUE, labels, types, <<>>, title_column),
                          [op |-> "Schema", name |-> "", arg |-> "labels", fmt |-> ""])

SchemaAdd ==
    /\ schema.exists
    /\ \E name \in SNames, datatype \in SKinds \cup {""} :
        SchemaReturned(Schema_add(SchemaSelf, name, datatype),
                       [op |-> "add", name |-> name, arg |-> datatype, fmt |-> ""])

SchemaAddObject ==
    /\ schema.exists
    /\ \E name \in SNames, kd \in ObjKinds :
        SchemaReturned(Schema_add_object(SchemaSelf, TYPE_MAP(kd, PyStr(name)).obj),
                       [op |-> "add_object", name |-> name, arg |-> kd, fmt |-> ""])

SchemaRemove ==
    /\ schema.exists
    /\ \E name \in SNames :
        SchemaReturned(Schema_remove(SchemaSelf, name),
                       [op |-> "remove", name |-> name, arg |-> "", fmt |-> ""])

SchemaUpdateType ==
    /\ schema.exists
    /\ \E name \in SNames, datatype \in SKinds :
       \E format \in IF datatype = "number" THEN Formats ELSE {""} :
        SchemaReturned(Schema_update_type(SchemaSelf, name, datatype, format),
                       [op |-> "update_type", name |-> name, arg |-> datatype, fmt |-> format])

SchemaUpdateTypeObject ==
    /\ schema.exists
    /\ \E name \in SNames, kd \in ObjKinds :
        SchemaReturned(Schema_update_type_object(SchemaSelf, name, TYPE_MAP(kd, PyStr(name)).obj),
                       [op |-> "update_type_object", name |-> name, arg |-> kd, fmt |-> ""])

SchemaRename ==
    /\ schema.exists
    /\ \E old_name \in SNames, new_name \in SNames :
        SchemaReturned(Schema_rename_column(SchemaSelf, old_name, new_name),
                       [op |-> "rename", name |-> old_name, arg |-> new_name, fmt |-> ""])

SchemaSetItem ==
    /\ schema.exists
    /\ \E key \in SNames, kd \in ObjKinds :
        SchemaReturned(Schema_setitem(SchemaSelf, key, TYPE_MAP(kd, PyStr(key)).obj),
                       [op |-> "setitem", name |-> key, arg |-> kd, fmt |-> ""])

SchemaNext ==
    \/ SchemaNewObjects
    \/ SchemaNewLabels
    \/ SchemaAdd
    \/ SchemaAddObject
    \/ SchemaRemove
    \/ SchemaUpdateType
    \/ SchemaUpdateTypeObject
    \/ SchemaRename
    \/ SchemaSetItem

-----------------------------------------------------------------------------
(* Specifications: one per class under study, over the same variables        *)

-----------------------------------------------------------------------------
(* notion/SchemaObjects.py: SchemaObject, and one object as a state machine  *)

\* SchemaObject(**kwargs) leaving the kind's own key out when no config and
\* no such key was given
SchemaObject_no_default(kwargs) ==
    IF ~Has(kwargs, "type") THEN Raise("ValueError")
    ELSE IF ~Has(kwargs, "name") /\ ~Has(kwargs, "id") THEN Raise("ValueError")
    ELSE LET ty == Get(kwargs, "type").s
         IN  Ok(Obj("SchemaObject",
                    IF Has(kwargs, "config")
                    THEN Del(Put(kwargs, ty, Get(kwargs, "config")), "config")
                    ELSE kwargs))

\* SchemaObject(**kwargs): _obj is the keyword arguments, with config moved
\* under the key named by type and that key defaulted to {}
SchemaObject(kwargs) ==
    IF ~Has(kwargs, "type") THEN Raise("ValueError")
    ELSE IF ~Has(kwargs, "name") /\ ~Has(kwargs, "id") THEN Raise("ValueError")
    ELSE LET ty == Get(kwargs, "type").s
             o1 == IF Has(kwargs, "config")
                   THEN Del(Put(kwargs, ty, Get(kwargs, "config")), "config")
                   ELSE kwargs
             o2 == Put(o1, ty, IF Has(o1, ty) THEN Get(o1, ty) ELSE PyDict(<<>>))
         IN  Ok(Obj("SchemaObject", o2))

\* SchemaObject.type
SchemaObject_type(o) == Get(o.d, "type").s
\* SchemaObject.notion: _obj itself
SchemaObject_notion(o) == o.d
\* SchemaObject.config = value
SchemaObject_config_set(o, val) ==
    Ok(Obj(o.cls, Put(o.d, SchemaObject_type(o), val)))
\* SchemaObject.__setitem__(key, value): _obj[type][key] = value
SchemaObject_setitem(o, key, val) ==
    LET config == Get(o.d, SchemaObject_type(o))
    IN  IF config.py # "dict" THEN [exc |-> "TypeError", obj |-> o]
        ELSE Ok(Obj(o.cls, Put(o.d, SchemaObject_type(o), PyDict(Put(config.items, key, val)))))

\* the kinds, config keys, config values and whole configs tried
ObjectKinds == {"number", "select", "checkbox"}
ConfigKeys == {"format", "options"}
ConfigValues == {PyStr("number"), PyStr("dollar"), PyList(<<Elem(PyStr("red"))>>)}
Configs ==
    {PyDict(<<>>)} \cup {PyDict(<<KV(k, v)>>) : k \in ConfigKeys, v \in ConfigValues}

NoObjCall == [op |-> "none", key |-> "", arg |-> PyNone]

ObjInit == so = NoObj /\ ocall = NoObjCall /\ oret = "ok"

\* a constructor that raises leaves no object; a method that raises leaves
\* the object as it was
ObjReturned(res, c) ==
    /\ so' = res.obj
    /\ oret' = res.exc
    /\ ocall' = c
    /\ UNCHANGED <<valueVars, rowVars, schemaVars, dbVars>>

\* so = SchemaObject(type=kind, name="Price"), with config=... or without,
\* or with no name and no id
ObjNew ==
    /\ ocall = NoObjCall
    /\ \E kd \in ObjectKinds, named \in BOOLEAN, config \in Configs \cup {PyNone} :
        LET kwargs == <<KV("type", PyStr(kd))>>
                        \o (IF named THEN <<KV("name", PyStr("Price"))>> ELSE <<>>)
                        \o (IF config = PyNone THEN <<>> ELSE <<KV("config", config)>>)
        IN  ObjReturned(SchemaObject(kwargs),
                        [op |-> "SchemaObject", key |-> kd, arg |-> PyDict(kwargs)])

\* so = SchemaObject(**response), response a property object of the wire:
\* id, name, type and the kind's own key
ObjFromWire ==
    /\ ocall = NoObjCall
    /\ \E kd \in ObjectKinds, config \in Configs :
        LET response == <<KV("id", PyStr("fk")), KV("name", PyStr("Price")),
                          KV("type", PyStr(kd)), KV(kd, config)>>
        IN  ObjReturned(SchemaObject(response),
                        [op |-> "from_wire", key |-> kd, arg |-> PyDict(response)])

\* so.config = config
ObjSetConfig ==
    /\ so # NoObj
    /\ \E config \in Configs :
        ObjReturned(SchemaObject_config_set(so, config),
                    [op |-> "config", key |-> "", arg |-> config])

\* so[key] = value
ObjSetItem ==
    /\ so # NoObj
    /\ \E key \in ConfigKeys, val \in ConfigValues :
        ObjReturned(SchemaObject_setitem(so, key, val),
                    [op |-> "setitem", key |-> key, arg |-> val])

ObjNext ==
    \/ ObjNew
    \/ ObjFromWire
    \/ ObjSetConfig
    \/ ObjSetItem

Init == ValueInit /\ RowInit /\ SchemaInit /\ DbInit /\ ObjInit

SpecValue == Init /\ [][ValueNext]_vars
SpecRow == Init /\ [][RowNext]_vars
SpecShare == Init /\ [][ShareNext]_vars
SpecSchema == Init /\ [][SchemaNext]_vars
SpecDb == Init /\ [][DbNext]_vars
SpecObject == Init /\ [][ObjNext]_vars


-----------------------------------------------------------------------------
(* Properties of Row                                                         *)

\* the object the row holds under column c
RowObj(h, data, c) == h[Get(data, c)]
IsTitle(h, data, c) == Has(data, c) /\ TypeOf(RowObj(h, data, c)) = "title"

\* C1: sticky title.  When column c holds a title, row[c] = raw succeeds and
\* leaves c a title whose value is raw; and a step after which c is still
\* there but no longer a title is a step that assigned a PropertyValue to c.
C1_StickyTitle ==
    [][\A c \in Cols :
          IsTitle(heap, row.data, c) =>
            /\ (rcall'.op = "set_raw" /\ rcall'.col = c) =>
                  /\ rret' = "ok"
                  /\ IsTitle(heap', row'.data, c)
                  /\ value(RowObj(heap', row'.data, c)) = rcall'.arg
            /\ (Has(row'.data, c) /\ ~IsTitle(heap', row'.data, c)) =>
                  (rcall'.op = "set_pv" /\ rcall'.col = c)]_vars

\* a number was assigned to a column, and the column is a title holding it
C1_Witness ==
    /\ rcall.op = "set_raw"
    /\ rcall.arg.py = "int"
    /\ rret = "ok"
    /\ IsTitle(heap, row.data, rcall.col)
    /\ value(RowObj(heap, row.data, rcall.col)) = rcall.arg

\* the value columns of the last from_schema call that its schema has
SchemaColumns == {c \in Keys(rcall.arg.items) : Has(rcall.types.items, c)}

C7_AbsentColumnFails ==
    (rcall.op = "from_schema" /\ SchemaColumns # Keys(rcall.arg.items)) =>
        (rret # "ok" /\ ~row.exists)

-----------------------------------------------------------------------------
(* Properties of the values                                                  *)

\* C2: infer_from_value classifies by shape: a bool is a checkbox (never a
\* number), an int or a float is a number, a datetime is a date, a list of
\* strings is a multi_select, a string is a rich_text; no value is inferred
\* to be a title.
C2_InferPrecedence ==
    call.op = "infer" =>
        LET v == call.arg
            Is(c) == ret = "ok" /\ pv.cls = c
        IN  /\ v.py = "bool" => Is("CheckboxPropertyValue")
            /\ v.py \in {"int", "float"} => Is("NumberPropertyValue")
            /\ v.py = "datetime" => Is("DatePropertyValue")
            /\ (v.py = "list" /\ \A i \in 1..Len(v.items) : v.items[i].v.py = "str") =>
                  Is("MultiSelectPropertyValue")
            /\ v.py = "str" => Is("RichTextPropertyValue")
            /\ pv.cls # "TitlePropertyValue"

\* a bool was inferred, and is a checkbox
C2_Witness ==
    /\ call.op = "infer"
    /\ call.arg.py = "bool"
    /\ pv.cls = "CheckboxPropertyValue"
    /\ value(pv) = call.arg

\* C4: create(x.notion) succeeds for every value x and gives a value of the
\* same kind whose wire form is x's wire form, the id included.
C4_WireRoundTrip ==
    call.op = "create" =>
        /\ ret = "ok"
        /\ HasType(pv)
        /\ TypeOf(pv) = Get(call.arg.items, "type").s
        /\ DictEq(notion(pv), call.arg.items)

\* C8: update on a title or a rich_text value raises NotImplementedError and
\* leaves the value as it was.
C8_TextUpdateImmutable ==
    [][(call'.op = "update" /\ pv.cls \in TextClasses) =>
          (ret' = "NotImplementedError" /\ pv' = pv)]_vars

\* C9: from_type(kind, raw) produces no value for a kind outside the live
\* set; it raises NotImplementedError for a reserved kind and ValueError for
\* any other string.
C9_FromKindClassified ==
    (call.op = "from_type" /\ call.kind \notin LiveKinds) =>
        /\ pv = NoObj
        /\ ret = (IF call.kind \in ReservedKinds THEN "NotImplementedError" ELSE "ValueError")

\* C10: a number built from, or updated to, a native number holds what the
\* string spelling of that number gives, and holds it as a float.
C10_NumberNormalized ==
    (/\ call.op \in {"construct", "from_type", "update"}
     /\ ret = "ok"
     /\ pv.cls = "NumberPropertyValue"
     /\ call.arg.py \in {"int", "float"}) =>
        LET spelt == NumberPropertyValue(PyStr(NumStr(call.arg)), PyNone).obj
        IN  /\ Get(pv.d, "number") = Get(spelt.d, "number")
            /\ Get(pv.d, "number").py = "float"
            /\ Get(notion(pv), "number") = Get(notion(spelt), "number")

-----------------------------------------------------------------------------
(* Properties of the schemas                                                 *)

\* C3: an item assignment that succeeds on a schema with at most one title
\* column leaves at most one title column.
C3_AtMostOneTitle ==
    [][(/\ dcall'.op = "setitem"
        /\ dret' = "ok"
        /\ Cardinality(DbTitles(dbschema.cols)) <= 1) =>
          Cardinality(DbTitles(dbschema'.cols)) <= 1]_vars

\* C5: rename_column(old, new), old a column holding a property and new not a
\* column, succeeds; afterwards new holds a property of the kind and config
\* old had, named new, old is gone, and every other column is as it was.
C5_RenamePreserves ==
    [][(/\ scall'.op = "rename"
        /\ Has(schema.properties, scall'.name)
        /\ Get(schema.properties, scall'.name) # NoObj
        /\ ~Has(schema.properties, scall'.arg)) =>
          LET old == Get(schema.properties, scall'.name)
              props == schema'.properties
          IN  /\ sret' = "ok"
              /\ ~Has(props, scall'.name)
              /\ Has(props, scall'.arg)
              /\ Get(props, scall'.arg) # NoObj
              /\ Property_type(Get(props, scall'.arg)) = Property_type(old)
              /\ Property_config(Get(props, scall'.arg)) = Property_config(old)
              /\ Property_name(Get(props, scall'.arg)) = PyStr(scall'.arg)
              /\ \A k \in Keys(schema.properties) \ {scall'.name} :
                    Has(props, k) /\ Get(props, k) = Get(schema.properties, k)]_vars

-----------------------------------------------------------------------------
(* Row construction without kinds                                            *)

\* the columns of the row, in order
RowLabels == [i \in 1..Len(row.data) |-> row.data[i].k]

\* the raw value the last constructor call gave for column c
RawOf(c) ==
    IF rcall.arg.py = "dict" THEN Get(rcall.arg.items, c)
    ELSE rcall.arg.items[CHOOSE i \in 1..Len(row.data) : row.data[i].k = c].v

\* the columns title_column designates: the column of that name, or the
\* column at that position
Designated ==
    IF rcall.tc.py = "str" THEN {c \in Keys(row.data) : c = rcall.tc.s}
    ELSE {RowLabels[i] : i \in {j \in 1..Len(row.data) : j = (rcall.tc.n \div 10) + 1}}

\* C11: a row built without kinds, from a mapping or from parallel lists, has
\* as its title columns exactly the column title_column designates, by name or
\* by position, and every other column has the kind inferred from its value.
\* (Position 0 is also what title_column is when it is left out, so for it
\* either no title or the first column is accepted.)
C11_TitleIsDesignated ==
    (rcall.op \in {"Row", "RowList"} /\ rcall.types = PyNone /\ rret = "ok") =>
        LET titles == {c \in Keys(row.data) : IsTitle(heap, row.data, c)}
        IN  /\ IF rcall.tc = PyInt(0) THEN titles \in {{}, Designated}
               ELSE titles = Designated
            /\ \A c \in Keys(row.data) \ titles :
                  RowObj(heap, row.data, c) = infer_from_value(RawOf(c)).obj

-----------------------------------------------------------------------------
(* Values no kind can be inferred for                                        *)

\* the raw values infer_from_value is documented to classify: a bool, a
\* number, a datetime, a string, a list whose elements are all strings
Inferable(v) ==
    \/ v.py \in {"bool", "int", "float", "datetime", "str"}
    \/ v.py = "list" /\ \A i \in 1..Len(v.items) : v.items[i].v.py = "str"

\* C12: infer_from_value fails with ValueError (the uninferable-type error),
\* and yields no value, for every raw value that is not a bool, a number, a
\* datetime, a list of strings or a string: a mapping, None, or a list with
\* an element that is not a string.
C12_UninferableFails ==
    (call.op = "infer" /\ ~Inferable(call.arg)) =>
        (ret = "ValueError" /\ pv = NoObj)

-----------------------------------------------------------------------------
(* Failing schema operations                                                 *)

\* C13: add, by kind string or by property object, fails with ValueError
\* (duplicate column) and leaves the schema as it was when the name is
\* already a column; for a new name and a kind that has a property class it
\* succeeds, the new column holds a property of that kind, and every other
\* column is as it was.
C13_AddDuplicateFails ==
    [][(scall'.op \in {"add", "add_object"} /\ scall'.arg \in ObjKinds) =>
          IF Has(schema.properties, scall'.name)
          THEN sret' = "ValueError" /\ schema'.properties = schema.properties
          ELSE /\ sret' = "ok"
               /\ Keys(schema'.properties) = Keys(schema.properties) \cup {scall'.name}
               /\ Property_type(Get(schema'.properties, scall'.name)) = scall'.arg
               /\ \A k \in Keys(schema.properties) :
                     Get(schema'.properties, k) = Get(schema.properties, k)]_vars

\* C14: remove, update_type (by kind string or by property object) and
\* rename_column fail with ValueError (column not found) when the name is not
\* a column, rename_column fails with ValueError (duplicate column) when the
\* new name is already a column, and each of these failed calls leaves the
\* schema, its columns, their order, kinds and configs, exactly as it was.
C14_FailedCallsChangeNothing ==
    [][(\/ /\ scall'.op \in {"remove", "update_type", "update_type_object", "rename"}
           /\ ~Has(schema.properties, scall'.name)
        \/ /\ scall'.op = "rename"
           /\ Has(schema.properties, scall'.arg)) =>
          (sret' = "ValueError" /\ schema' = schema)]_vars

\* a rename onto the name of another column was refused
C14_Witness ==
    /\ scall.op = "rename"
    /\ sret = "ValueError"
    /\ scall.name # scall.arg
    /\ Has(schema.properties, scall.name)
    /\ Has(schema.properties, scall.arg)
    /\ Len(schema.properties) >= 2

-----------------------------------------------------------------------------
(* Changing the kind of a column                                             *)

\* the config fields a call update_type(name, kind, format=...) supplies
Supplied(format) == IF format = "" THEN <<>> ELSE <<KV("format", PyStr(format))>>

RECURSIVE Merged(_, _)
\* the config old with the fields of new put over it
Merged(old, new) ==
    IF new = <<>> THEN old
    ELSE Merged(Put(old, new[1].k, new[1].v), Tail(new))

\* C15: update_type(name, kind, format=...) on a column holding a property,
\* kind "title" without a format or "number" with or without one: the column
\* then holds a property of that kind; when the kind is the kind the column
\* had, its config is the old config with the supplied fields put over it,
\* and when the kind differs its config is that of a fresh property of the
\* kind with the supplied fields; every other column is as it was.
C15_UpdateKindMerges ==
    [][(/\ scall'.op = "update_type"
        /\ Has(schema.properties, scall'.name)
        /\ Get(schema.properties, scall'.name) # NoObj
        /\ \/ scall'.arg = "number"
           \/ scall'.arg = "title" /\ scall'.fmt = "") =>
          LET old == Get(schema.properties, scall'.name)
              new == Get(schema'.properties, scall'.name)
              fresh == TYPE_MAP(scall'.arg, PyStr(scall'.name)).obj
          IN  /\ Keys(schema'.properties) = Keys(schema.properties)
              /\ Property_type(new) = scall'.arg
              /\ IF Property_type(old) = scall'.arg
                 THEN DictEq(Property_config(new).items,
                             Merged(Property_config(old).items, Supplied(scall'.fmt)))
                 ELSE DictEq(Property_config(new).items,
                             Merged(Property_config(fresh).items, Supplied(scall'.fmt)))
              /\ \A k \in Keys(schema.properties) \ {scall'.name} :
                    Get(schema'.properties, k) = Get(schema.properties, k)]_vars

-----------------------------------------------------------------------------
(* Constructing a notiondb Schema                                            *)

\* the kind strings the library knows: the live and the reserved kinds
RecognizedKinds == LiveKinds \cup ReservedKinds

\* the kind strings a constructor call was given
GivenKinds ==
    IF dcall.arg.py = "dict"
    THEN {dcall.arg.items[i].v.s : i \in 1..Len(dcall.arg.items)}
    ELSE IF dcall.types.py = "list"
    THEN {dcall.types.items[i].v.s : i \in 1..Len(dcall.types.items)}
    ELSE {}

-----------------------------------------------------------------------------
(* The wire form of a notiondb Schema                                        *)

\* C17: the wire form schema.notion is a mapping with the one key
\* "properties", and Schema.from_notion(schema.notion) succeeds and gives a
\* schema with the same columns in the same order, each with the same kind,
\* config and id.
C17_SchemaWireRoundTrip ==
    [][(dcall'.op = "from_notion" /\ dcall'.arg = PyDict(DbSchema_notion(dbschema.cols))) =>
          /\ Keys(dcall'.arg.items) = {"properties"}
          /\ dret' = "ok"
          /\ dbschema'.cols = dbschema.cols]_vars

-----------------------------------------------------------------------------
(* Mutating a schema that has no title column                                *)

\* C18: every mutating operation of notion.Schema whose arguments are in
\* order returns normally, whatever number of title columns it leaves: add
\* of a new name, remove of a column, update_type of a column, rename_column
\* of a column to a free name, and item assignment.
C18_MutatorsSucceed ==
    [][(\/ /\ scall'.op = "add"
           /\ ~Has(schema.properties, scall'.name)
           /\ scall'.arg \in ObjKinds
        \/ /\ scall'.op = "remove"
           /\ Has(schema.properties, scall'.name)
        \/ /\ scall'.op = "update_type"
           /\ Has(schema.properties, scall'.name)
           /\ scall'.arg \in ObjKinds
           /\ scall'.fmt = ""
        \/ /\ scall'.op = "rename"
           /\ Has(schema.properties, scall'.name)
           /\ Get(schema.properties, scall'.name) # NoObj
           /\ ~Has(schema.properties, scall'.arg)
        \/ scall'.op = "setitem") =>
          sret' = "ok"]_vars

-----------------------------------------------------------------------------
(* The order of the columns of a notiondb Schema                             *)

\* C19: after every construction, item assignment and deletion, labels has
\* no duplicates, types is as long as labels and types[i] is the kind of the
\* column labels[i]; a schema built from a mapping lists its keys in their
\* order; assigning a new name appends it at the end, assigning an existing
\* name keeps the order, and deleting a column keeps the order of the rest.
C19_ColumnOrder ==
    [][LET labels == DbSchema_labels(dbschema.cols)
           after == DbSchema_labels(dbschema'.cols)
           types == DbSchema_types(dbschema'.cols)
           Rest(l) == l # dcall'.name
       IN  /\ \A i, j \in 1..Len(after) : after[i] = after[j] => i = j
           /\ Len(types) = Len(after)
           /\ \A i \in 1..Len(after) :
                 types[i] = SchemaProperty_type(Get(dbschema'.cols, after[i]))
           /\ (dcall'.op = "Schema" /\ dret' = "ok" /\ dcall'.arg.py = "dict") =>
                 after = [i \in 1..Len(dcall'.arg.items) |-> dcall'.arg.items[i].k]
           /\ (dcall'.op = "setitem" /\ dret' = "ok") =>
                 after = IF Has(dbschema.cols, dcall'.name) THEN labels
                         ELSE Append(labels, dcall'.name)
           /\ (dcall'.op = "delitem" /\ dret' = "ok") =>
                 after = SelectSeq(labels, Rest)]_vars

\* a column was added to a schema of two columns and is the last of three,
\* the two before it being of different kinds
C19_Witness ==
    /\ dcall.op = "setitem"
    /\ dret = "ok"
    /\ Len(dbschema.cols) = 3
    /\ DbSchema_labels(dbschema.cols)[3] = dcall.name
    /\ DbSchema_types(dbschema.cols)[1] # DbSchema_types(dbschema.cols)[2]

-----------------------------------------------------------------------------
(* The wire form of a schema object                                          *)

-----------------------------------------------------------------------------
(* Deleting a column of a row                                                *)

\* C21: row.delete(c) and del row[c] fail when c is not a column, with
\* ValueError and KeyError (column not found), and leave the row as it was;
\* when c is a column they remove exactly c, reading row[c] then fails with
\* KeyError, and every other column holds the object it held, unchanged.
C21_DeleteRemovesOne ==
    [][rcall'.op \in {"delete", "delitem"} =>
          IF ~Has(row.data, rcall'.col)
          THEN /\ rret' = IF rcall'.op = "delete" THEN "ValueError" ELSE "KeyError"
               /\ row' = row
               /\ heap' = heap
          ELSE /\ rret' = "ok"
               /\ Keys(row'.data) = Keys(row.data) \ {rcall'.col}
               /\ Row_getitem(heap', row'.data, rcall'.col).exc = "KeyError"
               /\ \A k \in Keys(row'.data) :
                     /\ Get(row'.data, k) = Get(row.data, k)
                     /\ Row_getitem(heap', row'.data, k) = Row_getitem(heap, row.data, k)]_vars

\* a column was deleted by delete, and the other column is still there
C21_Witness ==
    /\ rcall.op = "delete"
    /\ rret = "ok"
    /\ Len(row.data) = 1
    /\ ~Has(row.data, rcall.col)

-----------------------------------------------------------------------------
(* Malformed wire fragments                                                  *)

\* C22: create, given the wire form of a value without its "type" entry or
\* without the entry of its kind, raises and returns no value.
C22_MalformedFragmentFails ==
    call.op = "create_malformed" => (ret # "ok" /\ pv = NoObj)

-----------------------------------------------------------------------------
(* Two rows over the same objects                                            *)

\* C23: a set, a delete or a value update on one row leaves every column of
\* a second row as it was: the same columns, each holding an object with the
\* same contents, and so the same wire form.
C23_RowsShareNothing ==
    [][(row2.exists /\ rcall'.op \in {"set_raw", "set_pv", "delete", "update"}) =>
          /\ row2' = row2
          /\ \A c \in Keys(row2.data) :
                notion(heap'[Get(row2.data, c)]) = notion(heap[Get(row2.data, c)])]_vars

-----------------------------------------------------------------------------
(* The wire form of a row                                                    *)

\* C24: the wire form of a row is a mapping with the one key "properties",
\* whose value has exactly the columns of the row as its keys, and the wire
\* form of every column has a "type" entry and an entry under the name of
\* its kind.
C24_RowWireComplete ==
    row.exists =>
        LET wire == Row_notion(heap, row.data)
            P == Get(wire, "properties").items
        IN  /\ Keys(wire) = {"properties"}
            /\ Keys(P) = Keys(row.data)
            /\ Len(P) = Len(row.data)
            /\ \A c \in Keys(P) :
                  /\ Has(Get(P, c).items, "type")
                  /\ Has(Get(P, c).items, Get(Get(P, c).items, "type").s)

-----------------------------------------------------------------------------
(* Option objects                                                            *)

\* the option objects of a list of names or of one bare name: one {name: n}
\* per name, in order
OptionsOf(v) ==
    PyList(MapElems(NameOption, IF v.py = "str" THEN <<v>> ELSE ItemVals(v.items)))

\* C25: a multi_select value built from, or updated to, a list of names or a
\* bare name holds one option {name: n} per name in the same order, a bare
\* name counting as the one name it is; the options carry no color.
C25_OptionsPerName ==
    (/\ \/ call.op \in {"from_type", "construct"} /\ call.kind = "multi_select"
        \/ call.op = "update" /\ pv.cls = "MultiSelectPropertyValue"
     /\ \/ call.arg.py = "str"
        \/ call.arg.py = "list" /\ \A i \in 1..Len(call.arg.items) :
                                      call.arg.items[i].v.py = "str") =>
        (/\ ret = "ok"
         /\ Get(pv.d, "multi_select") = OptionsOf(call.arg))


\* ---------------------------------------------------------------------
\* C26: Row construction from parallel lists fails with a validation
\* error (ValueError) and creates no row whenever the value list comes
\* without a label list, or two of the supplied lists (values, labels,
\* kind strings) differ in length.
ListLen(l) == IF l.py = "list" THEN Len(l.items) ELSE -1

MismatchedLists ==
    \/ rcall.cols.py # "list"
    \/ ListLen(rcall.cols) # ListLen(rcall.arg)
    \/ /\ rcall.types.py = "list"
       /\ \/ ListLen(rcall.types) # ListLen(rcall.arg)
          \/ ListLen(rcall.types) # ListLen(rcall.cols)

C26_MismatchedListsFail ==
    (rcall.op = "RowList" /\ MismatchedLists)
        => (rret = "ValueError" /\ ~row.exists)


\* ---------------------------------------------------------------------
\* C27: on a value of a mutable kind (number, select, multi_select, date,
\* checkbox, formula), update(v) with v of the type the kind accepts never
\* fails, leaves the kind unchanged, and afterwards the value accessor,
\* read from the serialized entry of the kind, is the normalized v; the
\* components of a date or a select that v does not supply are kept.
MutableClasses ==
    {"NumberPropertyValue", "SelectPropertyValue", "MultiSelectPropertyValue",
     "DatePropertyValue", "CheckboxPropertyValue", "FormulaPropertyValue"}

Accepts(c, v) ==
    CASE c = "NumberPropertyValue" ->
            v.py \in {"int", "float"} \/ (v.py = "str" /\ IsNumericStr(v.s))
      [] c = "SelectPropertyValue" -> v.py = "str"
      [] c = "MultiSelectPropertyValue" ->
            \/ v.py = "str"
            \/ v.py = "list" /\ \A i \in 1..Len(v.items) : v.items[i].v.py = "str"
      [] c = "DatePropertyValue" -> v.py \in {"str", "datetime"}
      [] c = "CheckboxPropertyValue" -> v.py = "bool"
      [] c = "FormulaPropertyValue" -> v.py = "str"
      [] OTHER -> FALSE

Normalized(c, v) ==
    CASE c = "NumberPropertyValue" /\ v.py = "str" -> PyFloat(ParseFloat(v.s))
      [] c = "MultiSelectPropertyValue" /\ v.py = "str" -> PyList(<<Elem(v)>>)
      [] c = "DatePropertyValue" /\ v.py = "datetime" -> isoformat(v)
      [] OTHER -> v

UpdatedTo(old, new, v) ==
    /\ new.cls = old.cls
    /\ HasType(new) = HasType(old)
    /\ HasType(old) => TypeOf(new) = TypeOf(old)
    /\ Has(new.d, KindKey(new.cls))
    /\ CASE old.cls = "DatePropertyValue" ->
              /\ Get(value(new).items, "start") = Normalized(old.cls, v)
              /\ Del(value(new).items, "start") = Del(value(old).items, "start")
         [] old.cls = "SelectPropertyValue" ->
              /\ value(new) = Normalized(old.cls, v)
              /\ Del(Get(new.d, "select").items, "name")
                    = Del(Get(old.d, "select").items, "name")
         [] OTHER -> value(new) = Normalized(old.cls, v)

C27_UpdateSucceeds ==
    [][(call'.op = "update" /\ pv.cls \in MutableClasses
            /\ Accepts(pv.cls, call'.arg))
        => (ret' = "ok" /\ UpdatedTo(pv, pv', call'.arg))]_vars

C27_Witness ==
    /\ call.op = "update" /\ ret = "ok"
    /\ pv.cls = "NumberPropertyValue"
    /\ call.arg = PyStr("20.5")
    /\ value(pv) = PyFloat(205)


\* ---------------------------------------------------------------------
\* C28: a Row built from parallel label/value lists and the Row built
\* from the equivalent label-to-value mapping, no kinds and no title
\* designation passed to either call, have the same kind in every column.
KindsOf(h, data) == [i \in 1..Len(data) |-> KV(data[i].k, TypeOf(h[data[i].v]))]

EquivalentMapping ==
    PyDict(ZipDict(ItemVals(rcall.cols.items), ItemVals(rcall.arg.items)))

C28_ListAndMappingAgree ==
    (/\ rcall.op = "RowList" /\ rret = "ok"
     /\ rcall.arg.py = "list" /\ rcall.cols.py = "list"
     /\ rcall.types = PyNone /\ rcall.tc = PyInt(0))
        => LET m == Row_init(EquivalentMapping, PyNone, PyNone, PyInt(0))
           IN  m.exc = "ok" => KindsOf(m.heap, m.data) = KindsOf(heap, row.data)


\* ---------------------------------------------------------------------
\* C29: for a title or rich_text value, in every state reached by
\* construction followed by operations that succeed, the value accessor
\* (the plain_text of the first span) equals the text content of that
\* span as serialized.
SpanContent(o) ==
    Get(Get(Get(o.d, KindKey(o.cls)).items[1].v.items, "text").items, "content")

HasSpan(o) ==
    /\ o.cls \in TextClasses
    /\ Has(o.d, KindKey(o.cls))
    /\ Get(o.d, KindKey(o.cls)).py = "list"
    /\ Len(Get(o.d, KindKey(o.cls)).items) > 0

C29_ValueIsSpanContent == HasSpan(pv) => value(pv) = SpanContent(pv)


\* ---------------------------------------------------------------------
\* C30: in every reachable Schema state the mapping key of each column
\* equals the name recorded inside the property stored under it, after
\* any sequence of construction, add, rename, update of the kind and item
\* assignment, the forms that pass a pre-built property object included.
C30_KeyIsName ==
    schema.exists =>
        \A i \in 1..Len(schema.properties) :
            LET o == schema.properties[i].v
            IN  o # NoObj /\ Property_name(o) = PyStr(schema.properties[i].k)

=============================================================================
